---- MODULE Spec2Model ----
(***************************************************************************)
(* Model of ommnia_permission_tree.PermissionTree                          *)
(* (src/ommnia_permission_tree/permission_tree.py).                        *)
(*                                                                         *)
(* A permission string is a sequence of characters.  A dict is a sequence  *)
(* of <<key, object id>> pairs in insertion order (Python dicts keep it).  *)
(* The heap is a sequence of dicts: the object id of a dict is its index.  *)
(* Two entries holding the same id are the same Python object.             *)
(***************************************************************************)
EXTENDS Naturals, Sequences, FiniteSets, TLC

VARIABLES heap, data, last

vars == <<heap, data, last>>

(* ------------------------------ bounds -------------------------------- *)

\* longest permission, in segments, that a call is given
MaxSegs == 3
\* most non-root nodes a tree of SpecMut may hold after a grant
MaxNodes == 4
\* most permissions in one grant_many_from_strings call
MaxMany == 2
\* most non-root nodes a tree of SpecAlg may hold after a grant
MaxAlgNodes == 2

\* segment labels the calls use: two one-letter labels, so that a label
\* can repeat along a path ("a.b.a") and two keys can share a node
Segments == {<<"a">>, <<"b">>}

Trees == {"A", "B", "R"}

\* a tree name that is bound to no PermissionTree yet
None == 0

(* ----------------------- str.split / str.join -------------------------- *)

RECURSIVE split_acc(_, _, _)
split_acc(s, cur, acc) ==
    IF s = <<>> THEN Append(acc, cur)
    ELSE IF Head(s) = "." THEN split_acc(Tail(s), <<>>, Append(acc, cur))
    ELSE split_acc(Tail(s), Append(cur, Head(s)), acc)

\* permission.split(".")
split(s) == split_acc(s, <<>>, <<>>)

\* "".join(segments): the separator left out
join_nosep(segments) ==
    LET RECURSIVE cat(_)
        cat(ss) == IF ss = <<>> THEN <<>> ELSE Head(ss) \o cat(Tail(ss))
    IN cat(segments)

\* ".".join(segments)
join(segments) ==
    LET RECURSIVE cat(_)
        cat(ss) == IF ss = <<>> THEN <<>>
                   ELSE IF Len(ss) = 1 THEN Head(ss)
                   ELSE Head(ss) \o <<".">> \o cat(Tail(ss))
    IN cat(segments)

SegSeqs(n) == UNION {[1..k -> Segments] : k \in 1..n}

\* the permission strings the calls are given
Perms == {join(ss) : ss \in SegSeqs(MaxSegs)}

\* the permission strings check is asked about: one segment longer
Queries == {join(ss) : ss \in SegSeqs(MaxSegs + 1)}

(* ------------------------------- dict ---------------------------------- *)

Keys(d) == {d[i][1] : i \in DOMAIN d}

\* d[k]
Get(d, k) == d[CHOOSE i \in DOMAIN d : d[i][1] = k][2]

\* d[k] = v : a present key keeps its place, a new key goes last
Put(d, k, v) ==
    IF k \in Keys(d)
    THEN [i \in DOMAIN d |-> IF d[i][1] = k THEN <<k, v>> ELSE d[i]]
    ELSE Append(d, <<k, v>>)

\* del d[k]
Del(d, k) == SelectSeq(d, LAMBDA e : e[1] # k)

\* d == {}
IsEmpty(d) == Len(d) = 0

(* ------------------------------ check ---------------------------------- *)

\* return True in place of data == {}
check_end_true(h, d) == TRUE

\* the value returned once every segment is walked: data == {}
check_end(h, d) == IsEmpty(h[d])

RECURSIVE check_loop(_, _, _, _)
check_loop(h, d, segments, i) ==
    IF i > Len(segments) THEN check_end(h, d)
    ELSE IF segments[i] \notin Keys(h[d]) THEN IsEmpty(h[d])
    ELSE check_loop(h, Get(h[d], segments[i]), segments, i + 1)

check(h, root, permission) == check_loop(h, root, split(permission), 1)

(* ------------------------------ grant ---------------------------------- *)

\* data[segment] = {} ; data = data[segment]
grant_assign(h, d, segment) ==
    [heap |-> Append([h EXCEPT ![d] = Put(h[d], segment, Len(h) + 1)], <<>>),
     data |-> Len(h) + 1]

\* the round without "if last": a present last segment is walked into
grant_step_nooverrule(h, d, segment, islast) ==
    IF segment \notin Keys(h[d]) THEN grant_assign(h, d, segment)
    ELSE [heap |-> h, data |-> Get(h[d], segment)]

\* one round of the while loop
grant_step(h, d, segment, islast) ==
    IF segment \notin Keys(h[d]) THEN grant_assign(h, d, segment)
    ELSE IF islast THEN grant_assign(h, d, segment)
    ELSE [heap |-> h, data |-> Get(h[d], segment)]

RECURSIVE grant_loop(_, _, _, _)
grant_loop(h, d, permission, i) ==
    IF i > Len(permission) THEN h
    ELSE LET s == grant_step(h, d, permission[i], i = Len(permission))
         IN grant_loop(s.heap, s.data, permission, i + 1)

grant(h, root, permission) == grant_loop(h, root, permission, 1)

grant_from_string(h, root, permission) == grant(h, root, split(permission))

RECURSIVE grant_many_from_strings(_, _, _)
grant_many_from_strings(h, root, permissions) ==
    IF permissions = <<>> THEN h
    ELSE grant_many_from_strings(grant_from_string(h, root, Head(permissions)),
                                 root, Tail(permissions))

(* ------------------------------ revoke --------------------------------- *)

RECURSIVE revoke_loop(_, _, _, _)
revoke_loop(h, d, segments, i) ==
    IF i > Len(segments) THEN [heap |-> h, ret |-> TRUE]
    ELSE IF segments[i] \notin Keys(h[d]) THEN [heap |-> h, ret |-> FALSE]
    ELSE IF segments[i] = segments[Len(segments)]
         THEN [heap |-> [h EXCEPT ![d] = Del(h[d], segments[i])], ret |-> TRUE]
    ELSE revoke_loop(h, Get(h[d], segments[i]), segments, i + 1)

revoke(h, root, permission) == revoke_loop(h, root, split(permission), 1)

(* ---------------------------- to_strings ------------------------------- *)

\* ".".join(segments) of the yield
to_strings_join(segments) == join(segments)

RECURSIVE inner_to_strings(_, _, _)
RECURSIVE inner_to_strings_keys(_, _, _, _)
inner_to_strings(h, d, segments) ==
    (IF IsEmpty(h[d]) /\ Len(segments) > 0 THEN <<to_strings_join(segments)>> ELSE <<>>)
    \o inner_to_strings_keys(h, d, segments, 1)
inner_to_strings_keys(h, d, segments, j) ==
    IF j > Len(h[d]) THEN <<>>
    ELSE inner_to_strings(h, h[d][j][2], Append(segments, h[d][j][1]))
         \o inner_to_strings_keys(h, d, segments, j + 1)

to_strings(h, root) == inner_to_strings(h, root, <<>>)

(* ------------------ the heap, up to object renaming -------------------- *)

Range(s) == {s[i] : i \in DOMAIN s}
Pos(s, x) == CHOOSE i \in DOMAIN s : s[i] = x

RECURSIVE Visit(_, _, _)
RECURSIVE VisitKids(_, _, _, _)
\* the objects reachable from i, appended to seen in depth-first order
Visit(h, seen, i) ==
    IF i = None \/ i \in Range(seen) THEN seen
    ELSE VisitKids(h, Append(seen, i), h[i], 1)
VisitKids(h, seen, d, j) ==
    IF j > Len(d) THEN seen
    ELSE VisitKids(h, Visit(h, seen, d[j][2]), d, j + 1)

RECURSIVE VisitAll(_, _, _)
VisitAll(h, seen, roots) ==
    IF roots = <<>> THEN seen
    ELSE VisitAll(h, Visit(h, seen, Head(roots)), Tail(roots))

\* Unreachable dicts are freed and the live ones renumbered in depth-first
\* order from the roots: object identity is kept, addresses are not.
Collect(h, roots) ==
    LET order == VisitAll(h, <<>>, roots)
    IN [heap |-> [n \in 1..Len(order) |->
                    [j \in 1..Len(h[order[n]]) |->
                       <<h[order[n]][j][1], Pos(order, h[order[n]][j][2])>>]],
        roots |-> [r \in 1..Len(roots) |->
                    IF roots[r] = None THEN None ELSE Pos(order, roots[r])]]

\* the node graph under one root, as a value
TreeOf(h, root) == Collect(h, <<root>>).heap

\* non-root nodes of a tree
NodeCount(h, root) == Len(TreeOf(h, root)) - 1

(* ------------------------------ union ---------------------------------- *)

RECURSIVE inner_union(_, _, _)

\* one round of "for key in left"; res is the result dict being built
union_left_step(h, left, right, res, key) ==
    IF key \in Keys(res) /\ IsEmpty(h[Get(res, key)]) THEN [heap |-> h, result |-> res]
    ELSE IF key \notin Keys(h[right])
         THEN [heap |-> h, result |-> Put(res, key, Get(h[left], key))]
    ELSE IF IsEmpty(h[Get(h[right], key)])
         THEN [heap |-> Append(h, <<>>), result |-> Put(res, key, Len(h) + 1)]
    ELSE LET u == inner_union(h, Get(h[left], key), Get(h[right], key))
         IN [heap |-> u.heap, result |-> Put(res, key, u.id)]

\* the round without "if left[key] == {}"
union_right_step_noempty(h, left, right, res, key) ==
    IF key \in Keys(res) /\ IsEmpty(h[Get(res, key)]) THEN [heap |-> h, result |-> res]
    ELSE IF key \notin Keys(h[left])
         THEN [heap |-> h, result |-> Put(res, key, Get(h[right], key))]
    ELSE LET u == inner_union(h, Get(h[left], key), Get(h[right], key))
         IN [heap |-> u.heap, result |-> Put(res, key, u.id)]

\* one round of "for key in right"
union_right_step(h, left, right, res, key) ==
    IF key \in Keys(res) /\ IsEmpty(h[Get(res, key)]) THEN [heap |-> h, result |-> res]
    ELSE IF key \notin Keys(h[left])
         THEN [heap |-> h, result |-> Put(res, key, Get(h[right], key))]
    ELSE IF IsEmpty(h[Get(h[left], key)])
         THEN [heap |-> Append(h, <<>>), result |-> Put(res, key, Len(h) + 1)]
    ELSE LET u == inner_union(h, Get(h[left], key), Get(h[right], key))
         IN [heap |-> u.heap, result |-> Put(res, key, u.id)]

RECURSIVE union_left_loop(_, _, _, _, _)
union_left_loop(h, left, right, res, j) ==
    IF j > Len(h[left]) THEN [heap |-> h, result |-> res]
    ELSE LET s == union_left_step(h, left, right, res, h[left][j][1])
         IN union_left_loop(s.heap, left, right, s.result, j + 1)

RECURSIVE union_right_loop(_, _, _, _, _)
union_right_loop(h, left, right, res, j) ==
    IF j > Len(h[right]) THEN [heap |-> h, result |-> res]
    ELSE LET s == union_right_step(h, left, right, res, h[right][j][1])
         IN union_right_loop(s.heap, left, right, s.result, j + 1)

\* the result dict is a new object; id is its place in the heap
inner_union(h, left, right) ==
    LET s1 == union_left_loop(h, left, right, <<>>, 1)
        s2 == union_right_loop(s1.heap, left, right, s1.result, 1)
    IN [heap |-> Append(s2.heap, s2.result), id |-> Len(s2.heap) + 1]

union(h, self, other) == inner_union(h, self, other)

(* ----------------------------- contains -------------------------------- *)

RECURSIVE inner_contains(_, _, _)
RECURSIVE contains_loop(_, _, _, _)
contains_loop(h, a, b, j) ==
    IF j > Len(h[b]) THEN TRUE
    ELSE LET key == h[b][j][1]
         IN IF key \notin Keys(h[a]) THEN FALSE
            ELSE IF IsEmpty(h[Get(h[a], key)]) THEN contains_loop(h, a, b, j + 1)
            ELSE IF IsEmpty(h[Get(h[b], key)]) THEN FALSE
            ELSE IF ~inner_contains(h, Get(h[a], key), Get(h[b], key)) THEN FALSE
            ELSE contains_loop(h, a, b, j + 1)
inner_contains(h, a, b) == contains_loop(h, a, b, 1)

contains(h, self, other) == inner_contains(h, self, other)

(* ----------------------------- intersect ------------------------------- *)

RECURSIVE inner_intersect(_, _, _)

\* one round of "for key in left"
intersect_step(h, left, right, res, key) ==
    IF key \notin Keys(h[right]) THEN [heap |-> h, result |-> res]
    ELSE IF IsEmpty(h[Get(h[left], key)])
         THEN [heap |-> h, result |-> Put(res, key, Get(h[right], key))]
    ELSE LET u == inner_intersect(h, Get(h[left], key), Get(h[right], key))
         IN [heap |-> u.heap, result |-> Put(res, key, u.id)]

RECURSIVE intersect_loop(_, _, _, _, _)
intersect_loop(h, left, right, res, j) ==
    IF j > Len(h[left]) THEN [heap |-> h, result |-> res]
    ELSE LET s == intersect_step(h, left, right, res, h[left][j][1])
         IN intersect_loop(s.heap, left, right, s.result, j + 1)

inner_intersect(h, left, right) ==
    LET s == intersect_loop(h, left, right, <<>>, 1)
    IN [heap |-> Append(s.heap, s.result), id |-> Len(s.heap) + 1]

intersect(h, self, right) == inner_intersect(h, self, right)

(* ------------------------------ state ---------------------------------- *)

\* the last call: its name, receiver, argument and what it returned
NoCall == [op |-> "init", tree |-> "A", other |-> "A", perm |-> <<>>,
           ret |-> FALSE, out |-> <<>>]

\* A and B are constructed, R names no tree yet
Init ==
    /\ heap = << <<>>, <<>> >>
    /\ data = [t \in Trees |-> IF t = "A" THEN 1 ELSE IF t = "B" THEN 2 ELSE None]
    /\ last = NoCall

\* the state after a call left heap h2 and tree roots d2
Commit(h2, d2) ==
    LET c == Collect(h2, <<d2["A"], d2["B"], d2["R"]>>)
    IN /\ heap' = c.heap
       /\ data' = [t \in Trees |-> c.roots[IF t = "A" THEN 1 ELSE IF t = "B" THEN 2 ELSE 3]]

\* t = PermissionTree()
New(t) ==
    /\ Commit(Append(heap, <<>>), [data EXCEPT ![t] = Len(heap) + 1])
    /\ last' = [NoCall EXCEPT !.op = "new", !.tree = t]

\* t.grant_from_string(p), while the tree stays within cap nodes
GrantFromString(t, p, cap) ==
    /\ data[t] # None
    /\ LET h2 == grant_from_string(heap, data[t], p)
       IN /\ NodeCount(h2, data[t]) <= cap
          /\ Commit(h2, data)
    /\ last' = [NoCall EXCEPT !.op = "grant", !.tree = t, !.perm = p]

\* t.grant_many_from_strings(ps)
GrantManyFromStrings(t, ps) ==
    /\ data[t] # None
    /\ Commit(grant_many_from_strings(heap, data[t], ps), data)
    /\ last' = [NoCall EXCEPT !.op = "grant_many", !.tree = t, !.out = ps]

\* t.revoke(p)
Revoke(t, p) ==
    /\ data[t] # None
    /\ LET r == revoke(heap, data[t], p)
       IN /\ Commit(r.heap, data)
          /\ last' = [NoCall EXCEPT !.op = "revoke", !.tree = t, !.perm = p, !.ret = r.ret]

\* list(t.to_strings())
ToStrings(t) ==
    /\ data[t] # None
    /\ last' = [NoCall EXCEPT !.op = "to_strings", !.tree = t, !.out = to_strings(heap, data[t])]
    /\ UNCHANGED <<heap, data>>

\* R = l.union(r)
Union(l, r) ==
    /\ LET u == union(heap, data[l], data[r])
       IN Commit(u.heap, [data EXCEPT !["R"] = u.id])
    /\ last' = [NoCall EXCEPT !.op = "union", !.tree = l, !.other = r]

\* R = l.intersect(r)
Intersect(l, r) ==
    /\ LET u == intersect(heap, data[l], data[r])
       IN Commit(u.heap, [data EXCEPT !["R"] = u.id])
    /\ last' = [NoCall EXCEPT !.op = "intersect", !.tree = l, !.other = r]

\* l.contains(r)
Contains(l, r) ==
    /\ last' = [NoCall EXCEPT !.op = "contains", !.tree = l, !.other = r,
                              !.ret = contains(heap, data[l], data[r])]
    /\ UNCHANGED <<heap, data>>

\* del R
Discard ==
    /\ data["R"] # None
    /\ Commit(heap, [data EXCEPT !["R"] = None])
    /\ last' = [NoCall EXCEPT !.op = "del", !.tree = "R"]

(* --------------------------- specifications ---------------------------- *)

PermLists == UNION {[1..k -> Perms] : k \in 0..MaxMany}

Operands == {"A", "B"}

\* one tree, granted into and revoked from
NextMut ==
    \/ New("A")
    \/ \E p \in Perms : GrantFromString("A", p, MaxNodes)
    \/ \E p \in Perms : Revoke("A", p)
    \/ ToStrings("A")

SpecMut == Init /\ [][NextMut]_vars

\* a tree is constructed and a list of permissions granted into it
NextMany ==
    \/ New("A")
    \/ IsEmpty(heap[data["A"]]) /\ \E ps \in PermLists : GrantManyFromStrings("A", ps)

SpecMany == Init /\ [][NextMany]_vars

\* two trees are built, and the set operations applied to them; a result
\* is dropped before its operands are changed again
NextAlg ==
    \/ data["R"] = None /\ \E t \in Operands, p \in Perms : GrantFromString(t, p, MaxAlgNodes)
    \/ \E l, r \in Operands : l # r /\ Union(l, r)
    \/ \E l, r \in Operands : l # r /\ Intersect(l, r)
    \/ \E l, r \in Operands : l # r /\ Contains(l, r)
    \/ Discard

SpecAlg == Init /\ [][NextAlg]_vars

\* a tree and the results of its set operations are changed afterwards;
\* B stays as constructed
NextAlias ==
    \/ \E t \in {"A", "R"}, p \in Perms : GrantFromString(t, p, MaxAlgNodes)
    \/ \E p \in Perms : Revoke("R", p)
    \/ \E l, r \in Operands : Union(l, r)
    \/ \E l, r \in Operands : Intersect(l, r)

SpecAlias == Init /\ [][NextAlias]_vars

(* ------------------------------ claims --------------------------------- *)

\* segment sequence p is q or the start of q
IsPrefix(p, q) == Len(p) <= Len(q) /\ SubSeq(q, 1, Len(p)) = p

\* permission string p is q or a dotted prefix of q
Covers(p, q) == IsPrefix(split(p), split(q))

RECURSIVE PathsFrom(_, _, _)
PathsFrom(h, d, prefix) ==
    UNION {{Append(prefix, h[d][j][1])}
             \cup PathsFrom(h, h[d][j][2], Append(prefix, h[d][j][1])) : j \in DOMAIN h[d]}

\* the segment sequences of the nodes of a tree
Paths(h, root) == PathsFrom(h, root, <<>>)

\* C1: after R = l.intersect(r), every permission R grants is granted by
\* l and by r.
C1_IntersectConservative ==
    last.op = "intersect" =>
        \A q \in Queries :
            check(heap, data["R"], q) =>
                check(heap, data[last.tree], q) /\ check(heap, data[last.other], q)

\* C2: after revoke(P) returned true, check is false for P and for every
\* permission that extends P.
C2_RevokeTakesAway ==
    (last.op = "revoke" /\ last.ret) =>
        \A q \in Queries : Covers(last.perm, q) => ~check(heap, data[last.tree], q)

\* C3: when l.contains(r) returned true, every permission r grants is
\* granted by l.
C3_SupersetLaw ==
    (last.op = "contains" /\ last.ret) =>
        \A q \in Queries :
            check(heap, data[last.other], q) => check(heap, data[last.tree], q)

Untouched(t) ==
    data[t] # None => /\ data'[t] # None
                      /\ TreeOf(heap', data'[t]) = TreeOf(heap, data[t])

\* C4: a grant or revoke on one tree leaves the node structure of every
\* other tree unchanged, and union and intersect leave their operands
\* unchanged.
C4_Independent ==
    [][/\ last'.op \in {"grant", "revoke"} => \A t \in Trees \ {last'.tree} : Untouched(t)
       /\ last'.op \in {"union", "intersect"} => Untouched("A") /\ Untouched("B")]_vars

\* C5: after R = l.union(r), every permission l grants or r grants is
\* granted by R.
C5_UnionCovers ==
    last.op = "union" =>
        \A q \in Queries :
            (check(heap, data[last.tree], q) \/ check(heap, data[last.other], q))
                => check(heap, data["R"], q)

\* C6: after grant_from_string(P), check is true for P and for every
\* permission that has P as a prefix.
C6_GrantGrants ==
    last.op = "grant" =>
        \A q \in Queries : Covers(last.perm, q) => check(heap, data[last.tree], q)

\* a call that overruled nested permissions under an inner node
C6_Witness ==
    /\ last.op = "grant"
    /\ Len(split(last.perm)) = 2
    /\ NodeCount(heap, data["A"]) >= 3
    /\ ~IsEmpty(heap[data["A"]])

PrefixFree(S) == \A p, q \in S : p # q => ~Covers(p, q)

\* C7: after a non-empty prefix-free list S of permissions is granted into
\* a fresh tree with grant_many_from_strings, in any order, check(Q) is
\* true exactly when a permission of S is Q or a prefix of Q.
C7_GrantManyExact ==
    (last.op = "grant_many" /\ last.out # <<>> /\ PrefixFree(Range(last.out))) =>
        \A q \in Queries :
            check(heap, data[last.tree], q) <=> \E p \in Range(last.out) : Covers(p, q)

\* two different permissions sharing their first segment were granted
C7_Witness ==
    /\ last.op = "grant_many"
    /\ Len(last.out) = 2
    /\ last.out[1] # last.out[2]
    /\ PrefixFree(Range(last.out))
    /\ split(last.out[1])[1] = split(last.out[2])[1]

\* the tree that granting the strings ss into a fresh tree builds
Rebuilt(ss) == grant_many_from_strings(<< <<>> >>, 1, ss)

\* C8: granting the strings of T.to_strings() into a fresh tree gives a
\* tree that grants every permission T grants.
C8_RoundTrip ==
    last.op = "to_strings" =>
        \A q \in Queries :
            check(heap, data[last.tree], q) => check(Rebuilt(last.out), 1, q)

\* to_strings of a tree with two leaves at different depths
C8_Witness ==
    /\ last.op = "to_strings"
    /\ Len(last.out) >= 2
    /\ \E i, j \in DOMAIN last.out : Len(last.out[i]) < Len(last.out[j])

\* C9: l.union(r) and r.union(l) grant the same permissions.
C9_UnionCommutes ==
    last.op = "union" =>
        LET u == union(heap, data[last.other], data[last.tree])
        IN \A q \in Queries : check(heap, data["R"], q) = check(u.heap, u.id, q)

\* a union where a key is empty on one side and has children on the other
C9_Witness ==
    /\ last.op = "union"
    /\ last.tree # last.other
    /\ \E k \in Keys(heap[data[last.tree]]) \cap Keys(heap[data[last.other]]) :
          /\ IsEmpty(heap[Get(heap[data[last.tree]], k)])
          /\ ~IsEmpty(heap[Get(heap[data[last.other]], k)])

\* C10: revoke(P) returns true only if the node P is in the tree, and then
\* removes exactly that node and its subtree; if P is not in the tree it
\* returns false and changes nothing.
C10_RevokeOnlyTarget ==
    [][last'.op = "revoke" =>
        LET t == last'.tree
            P == split(last'.perm)
            before == Paths(heap, data[t])
            after == Paths(heap', data'[t])
        IN /\ last'.ret => /\ P \in before
                           /\ after = {q \in before : ~IsPrefix(P, q)}
           /\ P \notin before => ~last'.ret /\ after = before]_vars

====
